---- MODULE Spec2Model ----
(***************************************************************************)
(* Command-line minesweeper (src/minesweeper.py): the Board class          *)
(* (make_new_board, assign_values_to_board, get_num_neighboring_bombs,     *)
(* dig) and the session driver play().                                     *)
(*                                                                         *)
(* Three specifications share the construction of the board:               *)
(*   Spec      Board(dim_size, num_bombs) driven by play();                *)
(*   SpecCore  Board(dim_size, num_bombs) with dig called directly on      *)
(*             in-range coordinates, in any sequence;                      *)
(*   SpecOOB   as SpecCore, with dig also called on coordinates outside    *)
(*             the grid.                                                   *)
(***************************************************************************)
EXTENDS Integers, Sequences, FiniteSets, TLC

\* Bounds of the model.  dim_size ranges over 1 .. MaxDim and num_bombs over
\* 0 .. MaxLoad - 2 * dim_size, so that the larger grids are explored with fewer
\* bombs: side 3 with up to 2, side 2 with up to 4 (= size^2, an invalid request),
\* side 1 with up to 6 (invalid from 1 on).
MaxDim == 3
MaxLoad == 8

\* Cell contents.  The source stores None, '*' or an int count in board[r][c].
NONE == -2
BOMB == -1

VARIABLES
    dim_size,       \* Board.dim_size
    num_bombs,      \* Board.num_bombs
    board,          \* Board.board, a function on Cells(dim_size)
    bombs_planted,  \* local of make_new_board
    dug,            \* Board.dug
    safe,           \* play's local `safe`: the value the last dig returned
    err,            \* "IndexError" when the last direct dig call raised, else "none"
    pc,             \* where the program is: "plant", "assign", "ready" (the Board is
                    \* constructed; in play, the head of the while loop), "break",
                    \* "victory", "defeat"
    sel,            \* history: the (row, col) of the last dig call or player input
    turns           \* history: the passes of play's loop so far whose input was an
                    \* in-range, unrevealed, non-mine coordinate

vars == <<dim_size, num_bombs, board, bombs_planted, dug, safe, err, pc, sel, turns>>

Max(a, b) == IF a >= b THEN a ELSE b
Min(a, b) == IF a <= b THEN a ELSE b

\* The coordinates of a grid of side n: [0, n) x [0, n).
Cells(n) == (0 .. n - 1) \X (0 .. n - 1)

\* The elements of a list, as a set.
Range(f) == { f[i] : i \in DOMAIN f }

\* Mutant of NbrHi: the "+1" of range(..., min(dim_size-1, i+1)+1) forgotten.
NbrHiShort(n, i) == Min(n - 1, i + 1) - 1

\* Mutant of NbrLo: the range starts at i instead of i-1.
NbrLoSelf(i) == Max(0, i)

\* range(max(0, i-1), min(dim_size-1, i+1)+1), as both neighbour loops compute it:
\* the integers NbrLo(i) .. NbrHi(n, i).
NbrLo(i) == Max(0, i - 1)
NbrHi(n, i) == Min(n - 1, i + 1)

\* Python list indexing: i in [-n, n) is accepted, a negative i counts from the end;
\* anything else raises IndexError.
IndexOk(n, i) == -n <= i /\ i < n
PyIndex(n, i) == IF i < 0 THEN i + n ELSE i

\* self.board[row][col]
At(b, n, rc) == b[<<PyIndex(n, rc[1]), PyIndex(n, rc[2])>>]

\* Mutant of get_num_neighboring_bombs: the lower ends of the ranges not clipped with
\* max(0, .), so that row-1 = -1 or col-1 = -1 index the far edge of the grid.
get_num_neighboring_bombs_wrap(b, n, row, col) ==
    Cardinality({ rc \in ((row - 1) .. NbrHi(n, row)) \X ((col - 1) .. NbrHi(n, col)) :
                    /\ ~(rc[1] = row /\ rc[2] = col)
                    /\ At(b, n, rc) = BOMB })

\* get_num_neighboring_bombs(row, col): one increment for every (r, c) of the two
\* nested ranges, other than (row, col) itself, that holds a bomb.
get_num_neighboring_bombs(b, n, row, col) ==
    Cardinality({ rc \in (NbrLo(row) .. NbrHi(n, row)) \X (NbrLo(col) .. NbrHi(n, col)) :
                    /\ ~(rc[1] = row /\ rc[2] = col)
                    /\ b[rc] = BOMB })

\* assign_values_to_board: every cell that is not a bomb gets its count.  Bombs are
\* never reassigned, so the counts do not depend on the order of the two loops.
assign_values_to_board(b, n) ==
    [rc \in Cells(n) |-> IF b[rc] = BOMB THEN BOMB
                         ELSE get_num_neighboring_bombs(b, n, rc[1], rc[2])]

\* The (r, c) pairs of dig's two nested loops, in the order the loops visit them.
NbrSeq(n, rc) ==
    LET rlo == NbrLo(rc[1])
        clo == NbrLo(rc[2])
        h   == Max(0, NbrHi(n, rc[1]) - rlo + 1)
        w   == Max(0, NbrHi(n, rc[2]) - clo + 1)
    IN  [i \in 1 .. h * w |-> <<rlo + ((i - 1) \div w), clo + ((i - 1) % w)>>]

RECURSIVE dig(_, _, _, _)
RECURSIVE digLoop(_, _, _, _, _)

\* Mutant of dig: the `elif self.board[row][col] > 0: return True` branch missing, so
\* that a numbered cell cascades like a zero.
digCascadeNumbers(b, n, st, rc) ==
    LET st1 == [dug   |-> st.dug \cup {rc},
                calls |-> Append(st.calls, rc)]
    IN  IF ~(IndexOk(n, rc[1]) /\ IndexOk(n, rc[2]))
          THEN [dug |-> st1.dug, calls |-> st1.calls, ret |-> FALSE, err |-> "IndexError"]
        ELSE IF At(b, n, rc) = BOMB
          THEN [dug |-> st1.dug, calls |-> st1.calls, ret |-> FALSE, err |-> "none"]
        ELSE LET st2 == digLoop(b, n, st1, NbrSeq(n, rc), 1)
             IN  [dug |-> st2.dug, calls |-> st2.calls, ret |-> TRUE, err |-> "none"]

\* Mutant of dig: the test `> 0` written `> 1`, so that a cell counting one bomb
\* cascades.
digThresholdOne(b, n, st, rc) ==
    LET st1 == [dug   |-> st.dug \cup {rc},
                calls |-> Append(st.calls, rc)]
    IN  IF ~(IndexOk(n, rc[1]) /\ IndexOk(n, rc[2]))
          THEN [dug |-> st1.dug, calls |-> st1.calls, ret |-> FALSE, err |-> "IndexError"]
        ELSE IF At(b, n, rc) = BOMB
          THEN [dug |-> st1.dug, calls |-> st1.calls, ret |-> FALSE, err |-> "none"]
        ELSE IF At(b, n, rc) > 1
          THEN [dug |-> st1.dug, calls |-> st1.calls, ret |-> TRUE, err |-> "none"]
        ELSE LET st2 == digLoop(b, n, st1, NbrSeq(n, rc), 1)
             IN  [dug |-> st2.dug, calls |-> st2.calls, ret |-> TRUE, err |-> "none"]

\* Mutant of dig: the bomb test placed after the loops, so that digging a bomb
\* reveals its neighbours before it returns False.
digBombCascades(b, n, st, rc) ==
    LET st1 == [dug   |-> st.dug \cup {rc},
                calls |-> Append(st.calls, rc)]
    IN  IF ~(IndexOk(n, rc[1]) /\ IndexOk(n, rc[2]))
          THEN [dug |-> st1.dug, calls |-> st1.calls, ret |-> FALSE, err |-> "IndexError"]
        ELSE IF At(b, n, rc) > 0
          THEN [dug |-> st1.dug, calls |-> st1.calls, ret |-> TRUE, err |-> "none"]
        ELSE LET st2 == digLoop(b, n, st1, NbrSeq(n, rc), 1)
             IN  [dug |-> st2.dug, calls |-> st2.calls,
                  ret |-> At(b, n, rc) # BOMB, err |-> "none"]

\* dig(row, col).  st = [dug, calls] is the state the call starts from; the result adds
\* ret (the returned value) and err ("IndexError" when board[row][col] raises; ret is
\* then no value at all and is never read).
\* Mutant of dig: a cell with a positive count is reported safe but not recorded
\* in dug (line 109 moved below the test of line 113).
digForgetsNumber(b, n, st, rc) ==
    LET st1 == [dug |-> st.dug \cup {rc}, calls |-> Append(st.calls, rc)]
    IN  IF ~(IndexOk(n, rc[1]) /\ IndexOk(n, rc[2]))
          THEN [dug |-> st1.dug, calls |-> st1.calls, ret |-> FALSE, err |-> "IndexError"]
        ELSE IF At(b, n, rc) = BOMB
          THEN [dug |-> st1.dug, calls |-> st1.calls, ret |-> FALSE, err |-> "none"]
        ELSE IF At(b, n, rc) > 0
          THEN [dug |-> st.dug, calls |-> st1.calls, ret |-> TRUE, err |-> "none"]
        ELSE LET st2 == digLoop(b, n, st1, NbrSeq(n, rc), 1)
             IN  [dug |-> st2.dug, calls |-> st2.calls, ret |-> TRUE, err |-> "none"]

dig(b, n, st, rc) ==
    LET st1 == [dug   |-> st.dug \cup {rc},
                calls |-> Append(st.calls, rc)]
    IN  IF ~(IndexOk(n, rc[1]) /\ IndexOk(n, rc[2]))
          THEN [dug |-> st1.dug, calls |-> st1.calls, ret |-> FALSE, err |-> "IndexError"]
        ELSE IF At(b, n, rc) = BOMB
          THEN [dug |-> st1.dug, calls |-> st1.calls, ret |-> FALSE, err |-> "none"]
        ELSE IF At(b, n, rc) > 0
          THEN [dug |-> st1.dug, calls |-> st1.calls, ret |-> TRUE, err |-> "none"]
        ELSE LET st2 == digLoop(b, n, st1, NbrSeq(n, rc), 1)
             IN  [dug |-> st2.dug, calls |-> st2.calls, ret |-> TRUE, err |-> "none"]

\* Mutant of digLoop: `return self.dig(r, c)` in the loop body, so that the loops end
\* with the first neighbour they dig.
digLoopFirstOnly(b, n, st, nbrs, i) ==
    LET todo == { j \in i .. Len(nbrs) : nbrs[j] \notin st.dug }
    IN  IF todo = {} THEN st
        ELSE LET j == CHOOSE k \in todo : \A m \in todo : k <= m
                 r == dig(b, n, st, nbrs[j])
             IN  [dug |-> r.dug, calls |-> r.calls]

\* Mutant of digLoop: `return True` for `continue`, so that the loops end at the
\* first neighbour that is already dug.
digLoopBreak(b, n, st, nbrs, i) ==
    IF i > Len(nbrs) \/ nbrs[i] \in st.dug THEN st
    ELSE LET r == dig(b, n, st, nbrs[i])
         IN  digLoop(b, n, [dug |-> r.dug, calls |-> r.calls], nbrs, i + 1)

RECURSIVE digEach(_, _, _, _, _)
\* dig called on every coordinate of nbrs from position i on, whatever dug holds.
digEach(b, n, st, nbrs, i) ==
    IF i > Len(nbrs) THEN st
    ELSE LET r == dig(b, n, st, nbrs[i])
         IN  digEach(b, n, [dug |-> r.dug, calls |-> r.calls], nbrs, i + 1)

\* Mutant of digLoop: the neighbours to dig are picked once, before the loops run
\* (those not in dug at that moment), and are then all dug, also the ones a nested
\* call has revealed in the meantime.
digLoopStale(b, n, st, nbrs, i) ==
    digEach(b, n, st, SelectSeq(SubSeq(nbrs, i, Len(nbrs)), LAMBDA q : q \notin st.dug), 1)

\* The loops of lines 117-121 from position i of the neighbour sequence on: the
\* positions already in dug are skipped (continue), dig is called on the first one
\* that is not, its return value is dropped, and the loops go on behind it.
digLoop(b, n, st, nbrs, i) ==
    LET todo == { j \in i .. Len(nbrs) : nbrs[j] \notin st.dug }
    IN  IF todo = {} THEN st
        ELSE LET j == CHOOSE k \in todo : \A m \in todo : k <= m
                 r == dig(b, n, st, nbrs[j])
             IN  digLoop(b, n, [dug |-> r.dug, calls |-> r.calls], nbrs, j + 1)

----------------------------------------------------------------------------
\* Board.__init__: dim_size and num_bombs are stored unchecked, the board starts as
\* all None and make_new_board's loop begins.
Init ==
    /\ dim_size \in 1 .. MaxDim
    /\ num_bombs \in 0 .. (MaxLoad - 2 * dim_size)
    /\ board = [rc \in Cells(dim_size) |-> NONE]
    /\ bombs_planted = 0
    /\ dug = {}
    /\ safe = TRUE
    /\ err = "none"
    /\ pc = "plant"
    /\ sel = <<>>
    /\ turns = 0

\* Mutant of Plant: bombs_planted += 1 placed before the collision test, so that a
\* discarded sample is counted.
PlantCountsCollision(loc) ==
    /\ pc = "plant"
    /\ bombs_planted < num_bombs
    /\ LET row == loc \div dim_size
           col == loc % dim_size
       IN  /\ board' = [board EXCEPT ![<<row, col>>] = BOMB]
           /\ bombs_planted' = bombs_planted + 1
    /\ UNCHANGED <<dim_size, num_bombs, dug, safe, err, pc, sel, turns>>

\* One iteration of make_new_board's while loop with the sample loc.
Plant(loc) ==
    /\ pc = "plant"
    /\ bombs_planted < num_bombs
    /\ LET row == loc \div dim_size
           col == loc % dim_size
       IN  IF board[<<row, col>>] = BOMB
             THEN UNCHANGED <<board, bombs_planted>>
             ELSE /\ board' = [board EXCEPT ![<<row, col>>] = BOMB]
                  /\ bombs_planted' = bombs_planted + 1
    /\ UNCHANGED <<dim_size, num_bombs, dug, safe, err, pc, sel, turns>>

\* make_new_board's loop exits and returns the board.
Planted ==
    /\ pc = "plant"
    /\ ~(bombs_planted < num_bombs)
    /\ pc' = "assign"
    /\ UNCHANGED <<dim_size, num_bombs, board, bombs_planted, dug, safe, err, sel, turns>>

\* assign_values_to_board, then self.dug = set(): the Board is constructed.
AssignValues ==
    /\ pc = "assign"
    /\ board' = assign_values_to_board(board, dim_size)
    /\ dug' = {}
    /\ pc' = "ready"
    /\ UNCHANGED <<dim_size, num_bombs, bombs_planted, safe, err, sel, turns>>

Construct ==
    \/ \E loc \in 0 .. dim_size * dim_size - 1 : Plant(loc)
    \/ Planted
    \/ AssignValues

\* Board(dim_size, num_bombs) alone.  The interpreter keeps running the constructor,
\* and the sampling is fair: as long as the loop runs, a sample that falls on a free
\* position is drawn eventually.
SpecBuild == Init /\ [][Construct]_vars /\ WF_vars(Construct)

\* A direct call board.dig(row, col) on a constructed Board.  When the call raises,
\* nothing is returned and `safe` keeps its value; the IndexError is not caught
\* anywhere, so no further call follows it.
DigCall(rc) ==
    /\ pc = "ready"
    /\ err = "none"
    /\ LET r == dig(board, dim_size, [dug |-> dug, calls |-> <<>>], rc)
       IN  /\ dug' = r.dug
           /\ err' = r.err
           /\ safe' = IF r.err = "none" THEN r.ret ELSE safe
    /\ sel' = rc
    /\ UNCHANGED <<dim_size, num_bombs, board, bombs_planted, pc, turns>>

\* The out-of-range coordinates the direct calls are tried with: one row and one
\* column on either side of the grid.
OutOfRange(n) == {<<-1, 0>>, <<n, 0>>, <<0, -1>>, <<0, n>>}

\* Mutant of LoopCond: `<=` for `<`, the loop goes on when the count is reached.
LoopCondLate == Cardinality(dug) <= dim_size * dim_size - num_bombs

\* Mutant of LoopCond: the loop stops one cell early.
LoopCondEarly == Cardinality(dug) < dim_size * dim_size - num_bombs - 1

\* The condition of play's while loop, line 191.
LoopCond == Cardinality(dug) < dim_size * dim_size - num_bombs

\* Mutant of InvalidLocation: `>` for `>=`.
InvalidLocationOffByOne(n, rc) == rc[1] < 0 \/ rc[1] > n \/ rc[2] < 0 \/ rc[2] > n

\* The test of line 196.
InvalidLocation(n, rc) == rc[1] < 0 \/ rc[1] >= n \/ rc[2] < 0 \/ rc[2] >= n

\* One pass of play's while loop: the loop condition holds, the player enters
\* (row, col); an out-of-range input is rejected (continue), anything else is dug,
\* and a dig that returns False breaks out of the loop.
Turn(rc) ==
    /\ pc = "ready"
    /\ LoopCond
    /\ sel' = rc
    /\ IF InvalidLocation(dim_size, rc)
         THEN UNCHANGED <<dug, safe, err, pc, turns>>
         ELSE LET r == dig(board, dim_size, [dug |-> dug, calls |-> <<>>], rc)
              IN  /\ dug' = r.dug
                  /\ err' = r.err
                  /\ safe' = r.ret
                  /\ pc' = IF r.ret THEN "ready" ELSE "break"
                  /\ turns' = IF rc \in Cells(dim_size) /\ rc \notin dug /\ board[rc] # BOMB
                                THEN turns + 1 ELSE turns
    /\ UNCHANGED <<dim_size, num_bombs, board, bombs_planted>>

\* Mutant of all_coordinates: range(dim_size - 1) in both comprehension loops.
all_coordinates_short(n) ==
    [i \in 1 .. (n - 1) * (n - 1) |-> <<(i - 1) \div (n - 1), (i - 1) % (n - 1)>>]

\* The list of line 212: [(r,c) for r in range(dim_size) for c in range(dim_size)].
all_coordinates(n) == [i \in 1 .. n * n |-> <<(i - 1) \div n, (i - 1) % n>>]

\* The loop has ended, by its condition or by break: lines 207-213.  After a loss
\* board.dug is replaced by the list of all coordinates; the model keeps the set of
\* the coordinates the list holds.
EndGame ==
    /\ \/ pc = "break"
       \/ pc = "ready" /\ ~LoopCond
    /\ IF safe
         THEN pc' = "victory" /\ UNCHANGED dug
         ELSE pc' = "defeat" /\ dug' = Range(all_coordinates(dim_size))
    /\ UNCHANGED <<dim_size, num_bombs, board, bombs_planted, safe, err, sel, turns>>

\* play(dim_size, num_bombs)
Next ==
    \/ Construct
    \/ \E rc \in Cells(dim_size) \cup OutOfRange(dim_size) : Turn(rc)
    \/ EndGame

Spec == Init /\ [][Next]_vars

\* Board(dim_size, num_bombs), then any sequence of dig calls inside the grid.
CoreNext ==
    \/ Construct
    \/ \E rc \in Cells(dim_size) : DigCall(rc)

SpecCore == Init /\ [][CoreNext]_vars

\* Board(dim_size, num_bombs), then any sequence of dig calls, inside the grid or not.
OOBNext ==
    \/ Construct
    \/ \E rc \in Cells(dim_size) \cup OutOfRange(dim_size) : DigCall(rc)

SpecOOB == Init /\ [][OOBNext]_vars

----------------------------------------------------------------------------
\* Vocabulary of the properties, stated on the grid without the code's loops.

Grid == Cells(dim_size)
Mines == { rc \in Grid : board[rc] = BOMB }
Abs(x) == IF x < 0 THEN -x ELSE x

\* The up-to-8 cells around rc that lie on the grid (no wrap-around).
Neighbours8(rc) ==
    { q \in Grid : q # rc /\ Abs(q[1] - rc[1]) <= 1 /\ Abs(q[2] - rc[2]) <= 1 }

Constructed == pc \notin {"plant", "assign"}
ValidConfig == dim_size >= 1 /\ 0 <= num_bombs /\ num_bombs < dim_size * dim_size

\* C1: for every valid (size, mineCount) and every outcome of the sampling, once the
\* Board is constructed exactly mineCount cells hold a mine and every other cell
\* holds the number of mines among its up-to-8 neighbours on the grid.
C1_BoardCorrect ==
    (Constructed /\ ValidConfig) =>
        /\ Cardinality(Mines) = num_bombs
        /\ \A rc \in Grid \ Mines :
              board[rc] = Cardinality(Neighbours8(rc) \cap Mines)

\* A constructed 3x3 board with two mines, a cell counting both and a cell whose
\* neighbourhood is clipped at a corner and counts one.
C1_Witness ==
    /\ Constructed /\ ValidConfig
    /\ dim_size = 3 /\ num_bombs = 2
    /\ \E rc \in Grid : board[rc] = 2
    /\ \E rc \in {<<0, 0>>, <<0, 2>>, <<2, 0>>, <<2, 2>>} : board[rc] = 1

\* C2: in any sequence of dig calls inside the grid, the only mine a call can add
\* to the revealed set is the coordinate it was called with, and the call returns
\* False iff that coordinate is a mine.
C2_OnlySelectedMine ==
    [][ pc = "ready" =>
          /\ ((dug' \ dug) \cap Mines) \subseteq {sel'}
          /\ (safe' = FALSE) <=> (board[sel'] = BOMB) ]_vars

\* On a board with mines, a zero cell was dug, its cascade went further than the
\* cell itself, and no mine is revealed.
C2_Witness ==
    /\ pc = "ready" /\ sel # <<>>
    /\ num_bombs > 0
    /\ board[sel] = 0
    /\ Cardinality(dug) > 1
    /\ dug \cap Mines = {}
    /\ safe

\* C3: dig on a mine returns False and adds that coordinate alone to the revealed set.
C3_MineNoSideEffect ==
    [][ (pc = "ready" /\ board[sel'] = BOMB) =>
          /\ dug' = dug \cup {sel'}
          /\ safe' = FALSE ]_vars

\* A mine was dug after other cells had been revealed, and a neighbour of it is
\* still hidden.
C3_Witness ==
    /\ pc = "ready" /\ sel # <<>>
    /\ board[sel] = BOMB
    /\ safe = FALSE
    /\ sel \in dug
    /\ Cardinality(dug) > 1
    /\ \E q \in Neighbours8(sel) : q \notin dug

C5_Idempotent ==
    [][ pc = "ready" =>
          /\ sel' = sel => (dug' = dug /\ safe' = safe)
          /\ sel' \in dug => dug' = dug ]_vars

\* The state a second dig of a zero cell starts from: the cell was dug, its cascade
\* revealed other cells, and hidden cells remain on the board.
C5_Witness ==
    /\ pc = "ready" /\ sel # <<>>
    /\ board[sel] = 0
    /\ sel \in dug
    /\ Cardinality(dug) > 1
    /\ dug # Grid

RECURSIVE CascadeClosure(_, _)
\* The cells a reveal started from the set P reaches, whatever the order of the
\* visits: P, closed under "a hidden neighbour of a reached zero cell is reached".
\* D0 is the revealed set the reveal starts from.
CascadeClosure(D0, P) ==
    LET Q == P \cup { q \in Grid \ D0 : \E z \in P : board[z] = 0 /\ q \in Neighbours8(z) }
    IN  IF Q = P THEN P ELSE CascadeClosure(D0, Q)

\* C6: the cascade is confluent: the revealed set a dig call leaves is the revealed
\* set before it plus the order-free closure, the set every visiting order ends with.
C6_Confluent ==
    [][ pc = "ready" => dug' = dug \cup CascadeClosure(dug, {sel'}) ]_vars

\* A zero cell was dug on a board with mines and the cascade went beyond the cell's
\* own neighbours.
C6_Witness ==
    /\ pc = "ready" /\ sel # <<>>
    /\ num_bombs > 0
    /\ board[sel] = 0
    /\ \E q \in dug : q # sel /\ q \notin Neighbours8(sel)
    /\ dug \cap Mines = {}

\* C7: dig with a row or column outside [0, size) fails explicitly, reads no cell
\* and leaves the revealed set unchanged (so the revealed set stays on the grid).
C7_OutOfBoundsRejected ==
    /\ (sel # <<>> /\ sel \notin Grid) => err # "none"
    /\ dug \subseteq Grid

\* C8: a Board whose mineCount is not below size^2 is never constructed, and its
\* construction does not loop forever either.
C8_InvalidConfigurationRejected ==
    ~ValidConfig =>
        /\ ~Constructed
        /\ pc # "assign"
        /\ ~(pc = "plant" /\ bombs_planted < num_bombs /\ Mines = Grid)

\* C9: dig on a cell with a count above zero returns True and reveals that cell
\* alone: one new cell when it was hidden, and none of its neighbours.
C9_NumberNoCascade ==
    [][ (pc = "ready" /\ board[sel'] > 0) =>
          /\ safe' = TRUE
          /\ dug' = dug \cup {sel'}
          /\ sel' \notin dug => Cardinality(dug') = Cardinality(dug) + 1 ]_vars

\* A numbered cell was dug and every neighbour of it is still hidden.
C9_Witness ==
    /\ pc = "ready" /\ sel # <<>>
    /\ board[sel] > 0
    /\ safe
    /\ sel \in dug
    /\ Neighbours8(sel) # {}
    /\ Neighbours8(sel) \cap dug = {}

\* C10: on a board without mines one dig, of any cell, reveals all size^2 cells,
\* and the revealed count is then size^2 - mineCount.
C10_NoMinesOneReveal ==
    (pc = "ready" /\ num_bombs = 0 /\ sel # <<>>) =>
        /\ dug = Grid
        /\ Cardinality(dug) = dim_size * dim_size - num_bombs

\* The centre of the 3x3 board without mines was dug and all 9 cells are revealed.
C10_Witness ==
    /\ pc = "ready"
    /\ dim_size = 3 /\ num_bombs = 0
    /\ sel = <<1, 1>>
    /\ Cardinality(dug) = 9

\* C11: after every completed dig call inside the grid the revealed set is closed
\* under the cascade: every revealed zero cell has all its on-grid neighbours
\* revealed, so a hidden cell borders only revealed cells that hold a count above
\* zero or a mine that was dug itself.
C11_CascadeClosed ==
    pc = "ready" =>
        /\ \A z \in dug : board[z] = 0 => Neighbours8(z) \subseteq dug
        /\ \A u \in Grid \ dug : \A q \in Neighbours8(u) \cap dug :
              board[q] > 0 \/ board[q] = BOMB

\* On a 3x3 board with mines a zero cell was dug, a revealed numbered cell borders a
\* hidden cell, and hidden cells that are not mines remain.
C11_Witness ==
    /\ pc = "ready" /\ sel # <<>>
    /\ dim_size = 3 /\ num_bombs > 0
    /\ board[sel] = 0
    /\ \E u \in Grid \ (dug \cup Mines) : \E q \in Neighbours8(u) \cap dug : board[q] > 0

\* The run of one top-level call dig(rc) from the current revealed set.
DigRun(rc) == dig(board, dim_size, [dug |-> dug, calls |-> <<>>], rc)

\* C12: every dig call terminates, for every board and every in-range coordinate:
\* each recursive call is made on a coordinate that is not revealed and not dug
\* earlier in the same call, so the revealed set grows by one cell with every
\* recursive step, and a top-level call makes at most size^2 dig steps in all.
C12_BoundedRecursion ==
    pc = "ready" =>
        \A rc \in Grid :
            LET r == DigRun(rc)
            IN  /\ r.calls[1] = rc
                /\ Len(r.calls) <= dim_size * dim_size
                /\ \A i \in 2 .. Len(r.calls) :
                      /\ r.calls[i] \in Grid \ dug
                      /\ \A j \in 1 .. i - 1 : r.calls[j] # r.calls[i]
                /\ r.dug = dug \cup Range(r.calls)

\* A 3x3 board with mines on which the dig of a hidden zero cell makes more than
\* four recursive calls.
C12_Witness ==
    /\ pc = "ready"
    /\ dim_size = 3 /\ num_bombs > 0
    /\ \E rc \in Grid \ dug : board[rc] = 0 /\ Len(DigRun(rc).calls) > 5

\* C13: under play the revealed set only grows.  A dig call leaves the old set plus
\* the coordinates dig was called on, one added per step of the cascade, so every
\* intermediate set contains the one before it; the only other change is the
\* reveal-everything after a loss, which leaves all size^2 coordinates revealed.
C13_RevealedGrows ==
    [][ /\ dug \subseteq dug'
        /\ dug' # dug =>
              \/ /\ pc = "ready" /\ pc' \in {"ready", "break"}
                 /\ \E rc \in Grid : /\ rc = sel'
                                     /\ dug' = dug \cup Range(DigRun(rc).calls)
              \/ /\ pc = "break" /\ pc' = "defeat"
                 /\ dug' = Grid ]_vars

\* After a loss on a 3x3 board every coordinate is revealed.
C13_Witness ==
    /\ pc = "defeat"
    /\ dim_size = 3
    /\ sel \in Mines
    /\ dug = Grid

\* C14: in every state of a game driven through play, whatever the player enters,
\* the revealed set holds grid coordinates only and no coordinate twice: no
\* out-of-range input reaches dig (no call raises), and the list that replaces the
\* set after a loss names each coordinate once.
C14_RevealedOnGrid ==
    /\ dug \subseteq Grid
    /\ err = "none"
    /\ pc = "defeat" =>
          /\ dug = Range(all_coordinates(dim_size))
          /\ Len(all_coordinates(dim_size)) = Cardinality(dug)

\* An out-of-range input was entered after cells had been revealed, and the game goes
\* on with hidden cells left.
C14_Witness ==
    /\ pc = "ready"
    /\ sel \in OutOfRange(dim_size)
    /\ dug # {}
    /\ LoopCond

\* The game is over: a mine is revealed, or the revealed count has reached
\* size^2 - mineCount.
Terminal ==
    /\ Constructed
    /\ \/ dug \cap Mines # {}
       \/ Cardinality(dug) = dim_size * dim_size - num_bombs

\* C15: once the game is over, play never calls dig again: no pass of the loop is
\* made from such a state, and the only step left is the end-of-game report.
C15_NoDigAfterEnd ==
    [][ Terminal =>
          /\ \A rc \in Grid \cup OutOfRange(dim_size) : ~Turn(rc)
          /\ pc' \in {"victory", "defeat"}
          /\ sel' = sel ]_vars

\* A game on a 3x3 board was lost and reported: the mine dug last ended it.
C15_Witness ==
    /\ pc = "defeat"
    /\ dim_size = 3
    /\ sel \in Mines
    /\ ~safe

\* C16: mine placement terminates for every valid configuration under fair
\* sampling; a sample that collides with a planted mine is not counted
\* (bombs_planted is the number of mines on the board), and the loop is left
\* exactly with num_bombs distinct mines.
C16_PlacementTerminates ==
    /\ [](pc = "plant" => (bombs_planted = Cardinality(Mines) /\ bombs_planted <= num_bombs))
    /\ [](pc # "plant" => Cardinality(Mines) = num_bombs)
    /\ [](pc = "plant" /\ Cardinality(Mines) = num_bombs => ENABLED Planted)
    /\ ((pc = "plant" /\ ValidConfig) ~> (pc # "plant"))

\* make_new_board has returned a 3x3 board with two distinct mines.
C16_Witness ==
    /\ pc = "assign"
    /\ dim_size = 3 /\ num_bombs = 2
    /\ bombs_planted = 2
    /\ Cardinality(Mines) = 2

\* C17: a pass of play's loop on an in-range, unrevealed, non-mine coordinate
\* strictly increases the revealed count and leaves the game running; a pass on an
\* out-of-range or already revealed coordinate leaves the revealed set unchanged and
\* the loop running.  The number of passes of the first kind never exceeds the
\* number of revealed non-mine cells, so while the loop asks for input fewer than
\* dim_size^2 - num_bombs of them have been made, and such a coordinate is still
\* there to select; when the loop condition fails with no mine dug, the game ends
\* in victory.
C17_Progress ==
    /\ [][\A rc \in Grid \ dug :
            (pc = "ready" /\ board[rc] # BOMB /\ Turn(rc))
                => /\ Cardinality(dug') > Cardinality(dug)
                   /\ dug \subseteq dug' /\ rc \in dug'
                   /\ safe' /\ pc' = "ready"]_vars
    /\ [][\A rc \in OutOfRange(dim_size) \cup dug :
            (pc = "ready" /\ Turn(rc)) => (dug' = dug /\ pc' = "ready" /\ LoopCond')]_vars
    /\ [](turns <= Cardinality(dug \ Mines))
    /\ [](pc = "ready" /\ LoopCond
            => /\ turns < dim_size * dim_size - num_bombs
               /\ \E rc \in Grid \ dug : board[rc] # BOMB)
    /\ [][pc = "ready" /\ ~LoopCond => pc' = "victory"]_vars

\* A 3x3 game with one mine won by eight inputs of unrevealed non-mine cells, one
\* cell revealed per input.
C17_Witness ==
    /\ pc = "victory"
    /\ dim_size = 3 /\ num_bombs = 1
    /\ turns = 8
    /\ dug = Grid \ Mines

====
